---------------------------- MODULE Spec2Model ----------------------------
(***************************************************************************)
(* A model of the journaling application: the AI client (ai_client.py:     *)
(* _call_groq, the TTL cache of get_coaching_suggestion, the plan pipeline *)
(* of get_goal_breakdown) and the request handlers of main.py that the     *)
(* verified properties are about.                                          *)
(*                                                                         *)
(* A Python str is a sequence of one-character strings; None is the model  *)
(* value None.                                                             *)
(***************************************************************************)
EXTENDS Integers, Sequences, FiniteSets, TLC

\* None, and a JSON value that is not a string (a number, a list, an object):
\* neither is a sequence of characters
None == <<"None">>
NonStr == <<"NonStr">>

(***************************************************************************)
(* Python str primitives                                                   *)
(***************************************************************************)
UpperChars == <<"A","B","C","D","E","F","G","H","I","J","K","L","M",
                "N","O","P","Q","R","S","T","U","V","W","X","Y","Z">>

LowerChars == <<"a","b","c","d","e","f","g","h","i","j","k","l","m",
                "n","o","p","q","r","s","t","u","v","w","x","y","z">>

DigitChars == <<"0","1","2","3","4","5","6","7","8","9">>

Range(f) == {f[i] : i \in DOMAIN f}

UpperSet == Range(UpperChars)

\* str.lower() on one character, as a table
LowerMap == [c \in UpperSet |-> LowerChars[CHOOSE i \in DOMAIN UpperChars : UpperChars[i] = c]]

LowerChar(c) == IF c \in UpperSet THEN LowerMap[c] ELSE c

\* str.lower()
Lower(s) == [i \in 1..Len(s) |-> LowerChar(s[i])] \o <<>>

\* regex \w
WordChars == Range(UpperChars) \cup Range(LowerChars) \cup Range(DigitChars) \cup {"_"}

IsWordChar(c) == c \in WordChars

\* regex \s, and the characters str.strip() removes
SpaceChars == {" ", "\n", "\t", "\r"}

IsSpace(c) == c \in SpaceChars

\* s[:n]
Take(s, n) == SubSeq(s, 1, IF Len(s) < n THEN Len(s) ELSE n)

\* str.strip(): drop the leading and trailing characters that satisfy drop
StripOf(s, dropSet) ==
    LET keep == {i \in 1..Len(s) : s[i] \notin dropSet}
    IN  IF keep = {} THEN <<>>
        ELSE LET lo == CHOOSE i \in keep : \A j \in keep : i <= j
                 hi == CHOOSE i \in keep : \A j \in keep : i >= j
             IN  SubSeq(s, lo, hi)

Strip(s) == StripOf(s, SpaceChars)

\* str(n) for n >= 0
RECURSIVE IntToStr(_)
IntToStr(n) ==
    IF n < 10 THEN <<DigitChars[n + 1]>>
    ELSE IntToStr(n \div 10) \o <<DigitChars[(n % 10) + 1]>>

\* `not v` for an Optional[str]
Falsy(v) == v = None \/ v = <<>>

\* (v or "")
OrEmpty(v) == IF Falsy(v) THEN <<>> ELSE v

(***************************************************************************)
(* Regular expressions (re.search).  A pattern is a sequence of atoms      *)
(*   <<"b", <<>>>>        \b                                               *)
(*   <<"alt", <<w1,..>>>> (w1|...) over literals; (w)? is <<"alt",<<w,"">>>>*)
(*   <<"star", cls>>      cls*      <<"plus", cls>>  cls+                   *)
(*   <<"optc", cls>>      cls?                                             *)
(* with cls one of "notnl" ([^\n]), "space" (\s), "dashspace" ([-\s]).     *)
(* Positions are 1..Len(s)+1: position p is just before s[p].              *)
(***************************************************************************)
InClass(cls, c) ==
    CASE cls = "notnl" -> c # "\n"
      [] cls = "space" -> IsSpace(c)
      [] cls = "dashspace" -> c = "-" \/ IsSpace(c)

WordAt(s, p) == p >= 1 /\ p <= Len(s) /\ IsWordChar(s[p])

WordBoundary(s, p) == WordAt(s, p - 1) # WordAt(s, p)

LitAt(s, p, w) ==
    /\ p + Len(w) - 1 <= Len(s)
    /\ \A k \in 1..Len(w) : s[p + k - 1] = w[k]

\* the position after the longest run of cls characters that starts at p
RunEnd(cls, s, p) ==
    LET stops == {r \in p..Len(s) : ~InClass(cls, s[r])}
    IN  IF stops = {} THEN Len(s) + 1
        ELSE CHOOSE r \in stops : \A r2 \in stops : r <= r2

\* the positions at which a match of atom a that starts at p may end
AtomEnds(a, s, p) ==
    CASE a[1] = "b" -> IF WordBoundary(s, p) THEN {p} ELSE {}
      [] a[1] = "alt" -> {p + Len(a[2][k]) : k \in {j \in DOMAIN a[2] : LitAt(s, p, a[2][j])}}
      [] a[1] = "star" -> p..RunEnd(a[2], s, p)
      [] a[1] = "plus" -> (p + 1)..RunEnd(a[2], s, p)
      [] a[1] = "optc" -> {p} \cup (IF p <= Len(s) /\ InClass(a[2], s[p]) THEN {p + 1} ELSE {})

RECURSIVE SeqEnds(_, _, _, _)
SeqEnds(pat, k, s, P) ==
    IF k > Len(pat) \/ P = {} THEN P
    ELSE SeqEnds(pat, k + 1, s, UNION {AtomEnds(pat[k], s, p) : p \in P})

\* re.search(pat, s) is not None
ReSearch(pat, s) == SeqEnds(pat, 1, s, 1..(Len(s) + 1)) # {}

B == <<"b", <<>>>>
Lit(w) == <<"alt", <<w>>>>
Opt(w) == <<"alt", <<w, <<>>>>>>
NotNlStar == <<"star", "notnl">>

W ==
    [goal |-> <<"g","o","a","l">>,
     s |-> <<"s">>,
     set |-> <<"s","e","t">>,
     ting |-> <<"t","i","n","g">>,
     setting |-> <<"s","e","t","t","i","n","g">>,
     define |-> <<"d","e","f","i","n","e">>,
     clarify |-> <<"c","l","a","r","i","f","y">>,
     refine |-> <<"r","e","f","i","n","e">>,
     establish |-> <<"e","s","t","a","b","l","i","s","h">>,
     determine |-> <<"d","e","t","e","r","m","i","n","e">>,
     articulate |-> <<"a","r","t","i","c","u","l","a","t","e">>,
     choose |-> <<"c","h","o","o","s","e">>,
     identify |-> <<"i","d","e","n","t","i","f","y">>,
     smart |-> <<"s","m","a","r","t">>,
     set_personal_goals |-> <<"s","e","t"," ","p","e","r","s","o","n","a","l"," ","g","o","a","l","s">>,
     create |-> <<"c","r","e","a","t","e">>,
     develop |-> <<"d","e","v","e","l","o","p">>,
     build |-> <<"b","u","i","l","d">>,
     draft |-> <<"d","r","a","f","t">>,
     make |-> <<"m","a","k","e">>,
     outline |-> <<"o","u","t","l","i","n","e">>,
     design |-> <<"d","e","s","i","g","n">>,
     action |-> <<"a","c","t","i","o","n">>,
     plan |-> <<"p","l","a","n">>,
     your |-> <<"y","o","u","r">>,
     approach |-> <<"a","p","p","r","o","a","c","h">>,
     actions |-> <<"a","c","t","i","o","n","s">>,
     steps |-> <<"s","t","e","p","s">>]

\* r"\b<verb>\b[^\n]*\bgoals?\b"
VerbGoals(verb) == <<B, Lit(verb), B, NotNlStar, B, Lit(W.goal), Opt(W.s), B>>

\* the list `patterns` of _is_meta_goal_step, in its order
patterns == <<
    <<B, Lit(W.set), Opt(W.ting), B, NotNlStar, B, Lit(W.goal), Opt(W.s), B>>,
    VerbGoals(W.define),
    VerbGoals(W.clarify),
    VerbGoals(W.refine),
    VerbGoals(W.establish),
    VerbGoals(W.determine),
    VerbGoals(W.articulate),
    VerbGoals(W.choose),
    VerbGoals(W.identify),
    <<B, Lit(W.goal), <<"optc", "dashspace">>, Lit(W.setting), B>>,
    VerbGoals(W.smart),
    <<B, Lit(W.set_personal_goals), B>>,
    <<B, <<"alt", <<W.create, W.develop, W.build, W.draft, W.make, W.outline, W.design>>>>, B,
      NotNlStar, B, Lit(W.action), <<"star", "space">>, Lit(W.plan), B>>,
    <<B, Lit(W.plan), <<"plus", "space">>, Lit(W.your), <<"plus", "space">>,
      <<"alt", <<W.approach, W.actions, W.steps>>>>, B>>
>>

_is_meta_goal_step(lower_combo) ==
    IF lower_combo = <<>> THEN FALSE
    ELSE \E i \in DOMAIN patterns : ReSearch(patterns[i], lower_combo)


(***************************************************************************)
(* State                                                                   *)
(***************************************************************************)
VARIABLES
    apiKeySet,        \* os.getenv("GROQ_API_KEY") is a non-empty string
    httpxInstalled,   \* `import httpx` succeeded
    httpRequests,     \* number of client.post(...) requests sent
    bd_pc,            \* get_goal_breakdown: "idle", "await_first", "await_backfill", "done"
    bd_goal,          \* its argument goal
    bd_steps,         \* its local steps at the await of the backfill call
    bd_result,        \* its return value
    bd_full,          \* len(steps) at line 189, before the trim
    bd_calls,         \* number of _call_groq calls it has made
    bd_gen,           \* the _generate_concrete_steps calls it has made, as their arguments
    gq_pc,            \* a direct _call_groq call: "idle", "await_http", "returned"
    gq_args,          \* its arguments [prompt, max_tokens, system_prompt]
    gq_payload,       \* the JSON payload of the request it sent, <<>> when none
    gq_reply,         \* its return value
    gq_calls,         \* number of direct _call_groq calls made
    _cache,           \* the module's dict _cache: key -> [expires_at, value]
    cache_src,        \* for each key of _cache, the context its value was generated for
    now,              \* time.time()
    ticks,            \* number of clock advances so far
    cs_pc,            \* get_coaching_suggestion: "idle", "await"
    cs_ctx,           \* its argument context
    cs_now,           \* its local now
    cs_found,         \* its local cached: <<>> for None, else <<entry>>
    cs_calls,         \* number of get_coaching_suggestion calls begun
    cs_log,           \* the last two completed calls, oldest first, each with its context,
                      \* the time it read (at), the entry it found, the number of model
                      \* calls it made (upstream), its result and the context that
                      \* result was generated for (src)
    journals_collection,  \* db["journals"], a set of documents
    entries_collection,   \* db["journal_entries"], a set of documents
    next_oid,         \* number of ObjectIds generated so far, plus one
    ce_pc,            \* create_entry in slot p: "idle", "journal_read", "entry_read", "done"
    ce_req,           \* its cookie, path parameter and body
    ce_local,         \* its locals journal, date, line, existing
    ce_resp,          \* its response
    ce_calls,         \* number of create_entry requests begun
    ce_log,           \* history: the date and the line a request wrote
    evaluations_collection,  \* db["journal_entry_evaluations"], a set of documents
    ev_pc,            \* coach_evaluate_entry: "idle", "journal_read", "eval_read",
                      \* "await_model", "generated", "deleted"
    ev_req,           \* its cookie and path parameter
    ev_local,         \* its locals journal, today_dt, evaluation, and key and now of
                      \* get_entry_evaluation
    ev_before,        \* evaluations_collection when the call began
    ev_upstream,      \* number of _call_groq calls the call has made
    ev_calls,         \* number of coach_evaluate_entry calls begun
    ev_log,           \* the last completed call, <<>> when none: its request, the
                      \* collection before it, the UTC day it was made on (today), the
                      \* number of model calls it made and its response
    rt_req,           \* the last HTTP request the router dispatched, <<>> when none
    rt_resp,          \* its response, with the endpoint that served it
    ns_pc,            \* _normalize_steps: "idle", "once" (applied), "twice" (applied to
                      \* its own result)
    ns_in,            \* its argument
    ns_out,           \* its return value
    ns_again,         \* its return value on ns_out
    users_collection, \* db["users"]: a set of documents
    us_pc,            \* register_user, per request: "idle", "user_read" (after the
                      \* find_one), "done"
    us_req,           \* its body
    us_existing,      \* its local `existing`
    us_resp,          \* its response
    us_calls,         \* number of register_user requests begun
    us_log,           \* history: whether a document with the username was stored when
                      \* the request ran its last step, and whether it inserted one
    ev_gen            \* for each (journal_id, user_id), the number of calls for which
                      \* get_entry_evaluation returned, and iso_today of the last of them

dbVars == <<journals_collection, entries_collection, evaluations_collection, next_oid>>
evVars == <<ev_pc, ev_req, ev_local, ev_before, ev_upstream, ev_calls, ev_log, ev_gen>>
ceVars == <<ce_pc, ce_req, ce_local, ce_resp, ce_calls, ce_log>>
envVars == <<apiKeySet, httpxInstalled, httpRequests>>
gqVars == <<gq_pc, gq_args, gq_payload, gq_reply, gq_calls>>
csVars == <<_cache, cache_src, now, ticks, cs_pc, cs_ctx, cs_now, cs_found, cs_calls, cs_log>>
bdVars == <<bd_pc, bd_goal, bd_steps, bd_result, bd_full, bd_calls, bd_gen>>
rtVars == <<rt_req, rt_resp>>
nsVars == <<ns_pc, ns_in, ns_out, ns_again>>
usVars == <<users_collection, us_pc, us_req, us_existing, us_resp, us_calls, us_log>>
vars == <<envVars, bdVars, gqVars, csVars, dbVars, ceVars, evVars, rtVars, nsVars, usVars>>

(***************************************************************************)
(* _call_groq.  An outcome is what the HTTP request does once sent: the    *)
(* status of the reply, a 200 reply whose JSON has no                      *)
(* choices[0].message.content ("badshape"), or an exception ("exception"). *)
(* The fixed messages are named; a 200 reply's content is the body.        *)
(***************************************************************************)
NoBody == <<>>

FailureKinds == {"401", "429", "5xx", "badshape", "exception"}

HttpOutcomes(failures, contents) ==
    {[kind |-> k, content |-> NoBody] : k \in failures}
    \cup {[kind |-> "ok", content |-> c] : c \in contents}

\* whether _call_groq gets as far as client.post
SendsRequest(key, hx) == key /\ hx

\* lines 84-96: the return value once the request has been sent
HttpResult(o) ==
    CASE o.kind = "401" -> [kind |-> "invalid_key", body |-> NoBody]
      [] o.kind = "429" -> [kind |-> "rate_limit", body |-> NoBody]
      [] o.kind = "5xx" -> [kind |-> "upstream_error", body |-> NoBody]
      [] o.kind = "ok" -> [kind |-> "content", body |-> o.content]
      [] o.kind = "badshape" -> [kind |-> "json_dump", body |-> NoBody]
      [] o.kind = "exception" -> [kind |-> "request_failed", body |-> NoBody]

\* the placeholder of lines 62-65
Placeholder == [kind |-> "placeholder", body |-> NoBody]

\* mutant: httpx checked before the API key
_call_groq_httpx_first(key, hx, o) ==
    IF ~hx THEN [kind |-> "httpx_missing", body |-> NoBody]
    ELSE IF ~key THEN Placeholder
    ELSE HttpResult(o)

\* lines 59-96: the return value, given the environment and the request's outcome
_call_groq(key, hx, o) ==
    IF ~key THEN Placeholder
    ELSE IF ~hx THEN [kind |-> "httpx_missing", body |-> NoBody]
    ELSE HttpResult(o)

\* the outcomes to draw from: none is drawn when no request is sent
OutcomesFor(failures, contents) ==
    IF SendsRequest(apiKeySet, httpxInstalled) THEN HttpOutcomes(failures, contents)
    ELSE {[kind |-> "unsent", content |-> NoBody]}

RequestsAfter(n) == IF SendsRequest(apiKeySet, httpxInstalled) THEN n + 1 ELSE n

\* the module constant SYSTEM_PROMPT, and the other two system prompts, by name
SYSTEM_PROMPT == <<"SYSTEM_PROMPT">>
PLAN_SYSTEM_PROMPT == <<"_PLAN_SYSTEM_PROMPT">>
EVAL_SYSTEM_PROMPT == <<"_EVAL_SYSTEM_PROMPT">>

\* lines 68-79: the payload of the request
Payload(prompt, max_tokens, system_prompt) ==
    [system |-> IF Falsy(system_prompt) THEN SYSTEM_PROMPT ELSE system_prompt,
     user |-> prompt,
     max_tokens |-> max_tokens]

MaxGroqCalls == 2   \* direct _call_groq calls in a run

GroqPrompts == {<<>>, <<"h","i">>}
GroqMaxTokens == {0, 300, 350}
GroqSystemPrompts == {None, <<>>, PLAN_SYSTEM_PROMPT}
GroqContents == {<<"o","k">>}

\* lines 59-67: a direct call, up to the request or to the early return
Groq_Call(prompt, max_tokens, system_prompt) ==
    /\ gq_pc \in {"idle", "returned"}
    /\ gq_calls < MaxGroqCalls
    /\ gq_calls' = gq_calls + 1
    /\ gq_args' = [prompt |-> prompt, max_tokens |-> max_tokens, system_prompt |-> system_prompt]
    /\ IF SendsRequest(apiKeySet, httpxInstalled)
       THEN /\ gq_pc' = "await_http"
            /\ gq_payload' = <<Payload(prompt, max_tokens, system_prompt)>>
            /\ httpRequests' = httpRequests + 1
            /\ UNCHANGED gq_reply
       ELSE /\ gq_pc' = "returned"
            /\ gq_payload' = <<>>
            /\ gq_reply' = _call_groq(apiKeySet, httpxInstalled, [kind |-> "unsent", content |-> NoBody])
            /\ UNCHANGED httpRequests
    /\ UNCHANGED <<apiKeySet, httpxInstalled, bdVars, csVars, dbVars, ceVars, evVars, rtVars, nsVars,
                   usVars>>

\* lines 83-96: the reply to the request, or its failure
Groq_Reply(o) ==
    /\ gq_pc = "await_http"
    /\ gq_pc' = "returned"
    /\ gq_reply' = _call_groq(apiKeySet, httpxInstalled, o)
    /\ UNCHANGED <<envVars, gq_args, gq_payload, gq_calls, bdVars, csVars, dbVars, ceVars, evVars, rtVars,
                   nsVars, usVars>>

(***************************************************************************)
(* get_goal_breakdown                                                      *)
(* A model reply's text is abstracted to what json.loads makes of it:      *)
(*   shape "garbage"  no JSON can be loaded (json.loads raises)            *)
(*   shape "nosteps"  JSON without a list under "steps"                    *)
(*   shape "steps"    a JSON object whose "steps" is the list `steps`      *)
(* A raw step is [isdict, id, title, description, expected_outcome, order] *)
(* with each text field a str, None (absent or null) or NonStr, and order  *)
(* <<"int", n>> (n = 0: absent, null or 0), <<"float", t>> (the number     *)
(* t/10, t >= 0) or <<"bad", 0>> (a value int() rejects).  A step kept has *)
(* the keys of the dict the code builds and, as `src`, the reply and the   *)
(* position it was taken from and the order the reply gave it.             *)
(***************************************************************************)
MAX_STEPS == 8
TITLE_MAX == 80
DESC_MAX == 220
OUTCOME_MAX == 160
ID_MAX == 48

SlugChars == Range(LowerChars) \cup Range(DigitChars) \cup {"-"}

\* re.sub(r"[^a-z0-9-]", "-", s.lower()).strip("-")[:48]
Slug(s) ==
    LET l == Lower(s)
        subbed == [i \in 1..Len(l) |-> IF l[i] \in SlugChars THEN l[i] ELSE "-"]
    IN  Take(StripOf(subbed \o <<>>, {"-"}), ID_MAX)

\* f"step-{n}"
StepN(n) == <<"s","t","e","p","-">> \o IntToStr(n)

\* f"{title} {desc}".lower()
LowerCombo(title, desc) == Lower(title \o <<" ">> \o desc)

ParsePlan(reply) ==
    CASE reply.kind = "content" -> reply.body
      [] reply.kind = "json_dump" -> [shape |-> "nosteps", steps |-> <<>>]
      [] OTHER -> [shape |-> "garbage", steps |-> <<>>]

\* int(order or dflt)
IntOrder(order, dflt) ==
    IF order[2] = 0 THEN dflt
    ELSE IF order[1] = "float" THEN order[2] \div 10
    ELSE order[2]

\* the step with the place it was taken from
Tagged(step, reply, pos, order) ==
    [f \in DOMAIN step \cup {"src"} |->
        IF f = "src" THEN [reply |-> reply, pos |-> pos, order |-> order] ELSE step[f]]

\* the body of the first loop for one raw step: "skip" (continue), "raise" or "append"
FirstStep(step, idx) ==
    IF ~step.isdict THEN [act |-> "skip"]
    ELSE IF step.title = NonStr \/ step.description = NonStr THEN [act |-> "raise"]
    ELSE LET title == Strip(OrEmpty(step.title))
             desc == Strip(OrEmpty(step.description))
         IN  IF _is_meta_goal_step(LowerCombo(title, desc)) THEN [act |-> "skip"]
             ELSE IF step.id = NonStr \/ step.expected_outcome = NonStr \/ step.order[1] = "bad"
             THEN [act |-> "raise"]
             ELSE LET sid0 == IF ~Falsy(step.id) THEN step.id
                              ELSE IF title # <<>> THEN title ELSE StepN(idx)
                      slug == Slug(sid0)
                      sid == IF slug # <<>> THEN slug ELSE StepN(idx)
                  IN  [act |-> "append",
                       step |-> [id |-> sid,
                                 title |-> IF Take(title, TITLE_MAX) # <<>>
                                           THEN Take(title, TITLE_MAX) ELSE sid,
                                 description |-> Take(desc, DESC_MAX),
                                 expected_outcome |-> Take(Strip(OrEmpty(step.expected_outcome)), OUTCOME_MAX),
                                 order |-> IntOrder(step.order, idx)]]

\* the first loop over raw_steps from index idx on; an exception empties steps
RECURSIVE FirstLoop(_, _, _)
FirstLoop(raw, idx, acc) ==
    IF idx > Len(raw) THEN acc
    ELSE LET r == FirstStep(raw[idx], idx)
         IN  CASE r.act = "raise" -> <<>>
               [] r.act = "skip" -> FirstLoop(raw, idx + 1, acc)
               [] r.act = "append" ->
                      FirstLoop(raw, idx + 1,
                                Append(acc, Tagged(r.step, "first", idx, raw[idx].order)))

\* list.sort(key=order): stable
RECURSIVE SortByOrder(_)
SortByOrder(steps) ==
    IF Len(steps) <= 1 THEN steps
    ELSE LET front == SortByOrder(SubSeq(steps, 1, Len(steps) - 1))
             last == steps[Len(steps)]
             k == Cardinality({i \in 1..Len(front) : front[i].order <= last.order})
         IN  SubSeq(front, 1, k) \o <<last>> \o SubSeq(front, k + 1, Len(front))

\* mutant: the steps kept from the first reply, in the order of the reply
FirstStepsUnsorted(reply) ==
    LET data == ParsePlan(reply)
    IN  IF data.shape = "steps" THEN FirstLoop(data.steps, 1, <<>>)
        ELSE <<>>

\* lines 138-163: the steps kept from the first reply, sorted
FirstSteps(reply) ==
    LET data == ParsePlan(reply)
    IN  IF data.shape = "steps" THEN SortByOrder(FirstLoop(data.steps, 1, <<>>))
        ELSE <<>>

\* the return value of _generate_concrete_steps
BackfillRaw(reply) ==
    LET data == ParsePlan(reply)
    IN  IF data.shape = "steps" THEN data.steps ELSE <<>>

\* the body of the backfill loop for one raw step, given the steps so far
BackfillStep(st, steps) ==
    IF ~st.isdict \/ st.title = NonStr \/ st.description = NonStr THEN [act |-> "raise"]
    ELSE LET title == Strip(OrEmpty(st.title))
             desc == Strip(OrEmpty(st.description))
         IN  IF title = <<>> THEN [act |-> "skip"]
             ELSE IF _is_meta_goal_step(LowerCombo(title, desc)) THEN [act |-> "skip"]
             ELSE IF \E i \in DOMAIN steps : Lower(title) = Lower(steps[i].title)
             THEN [act |-> "skip"]
             ELSE IF st.id = NonStr \/ st.expected_outcome = NonStr \/ st.order[1] = "bad"
             THEN [act |-> "raise"]
             ELSE LET slug == Slug(IF ~Falsy(st.id) THEN st.id ELSE title)
                  IN  [act |-> "append",
                       step |-> [id |-> IF slug # <<>> THEN slug ELSE StepN(Len(steps) + 1),
                                 title |-> Take(title, TITLE_MAX),
                                 description |-> Take(desc, DESC_MAX),
                                 expected_outcome |-> Take(Strip(OrEmpty(st.expected_outcome)), OUTCOME_MAX),
                                 order |-> IntOrder(st.order, Len(steps) + 1)]]

\* the backfill loop from index k on; an exception ends it and keeps the steps so far
RECURSIVE BackfillLoop(_, _, _)
BackfillLoop(backfill, k, steps) ==
    IF k > Len(backfill) THEN steps
    ELSE LET r == BackfillStep(backfill[k], steps)
         IN  CASE r.act = "raise" -> steps
               [] r.act = "skip" -> BackfillLoop(backfill, k + 1, steps)
               [] r.act = "append" ->
                      BackfillLoop(backfill, k + 1,
                                   Append(steps, Tagged(r.step, "backfill", k, backfill[k].order)))

\* steps[:8]
Trim(steps) == Take(steps, MAX_STEPS)

\* for i, s in enumerate(steps, start=1): s["order"] = i
Renumber(steps) == [i \in 1..Len(steps) |-> [steps[i] EXCEPT !.order = i]]

\* mutant: the trim without the renumbering
TrimOnly(steps) == Trim(steps)

\* lines 189-193
TrimAndRenumber(steps) == Renumber(Trim(steps))

\* mutant: the backfill call also made with 8 steps in hand
NeedsBackfillAtEight(goal, steps) == Strip(goal) # <<>> /\ Len(steps) <= MAX_STEPS

\* line 165: the condition of the backfill call
NeedsBackfill(goal, steps) == Strip(goal) # <<>> /\ Len(steps) < MAX_STEPS

\* line 168: the arguments of the _generate_concrete_steps call
GenArgs(steps) ==
    [existing_titles |-> [i \in 1..Len(steps) |-> steps[i].title],
     start_order |-> Len(steps) + 1,
     count |-> MAX_STEPS - Len(steps)]

(***************************************************************************)
(* Inputs of get_goal_breakdown: goals and model replies                   *)
(***************************************************************************)
MaxFirst == 9      \* longest "steps" list of a first reply
MaxBack == 3       \* longest "steps" list of a backfill reply
MaxPos == 2        \* a reply's unusual step is among its first MaxPos steps

Rep(c, n) == [i \in 1..n |-> c]

Min(a, b) == IF a < b THEN a ELSE b

Goals == {<<>>, <<" ">>, <<" ","r","u","n"," ">>}

PlainStep(word, k) ==
    [isdict |-> TRUE,
     id |-> Lower(word) \o <<"-">> \o IntToStr(k),
     title |-> word \o <<" ">> \o IntToStr(k),
     description |-> <<"d","o"," ","i","t">>,
     expected_outcome |-> <<"o","k">>,
     order |-> <<"int", k>>]

FirstBase == [k \in 1..(MaxFirst + 1) |-> PlainStep(<<"R","u","n">>, k)]
BackBase == [k \in 1..(MaxBack + 1) |-> PlainStep(<<"J","o","g">>, k)]

Swim == PlainStep(<<"S","w","i","m">>, 0)

\* a title of 85 characters
LongTitle == Rep("b", TITLE_MAX) \o <<"e","x","t","r","a">>

\* the unusual steps a model reply may hold
Specials == <<
    \* a meta step by its title
    [Swim EXCEPT !.title = <<"S","e","t"," ","G","o","a","l","s">>],
    \* no title, and an id that reads as a meta step
    [Swim EXCEPT !.title = None, !.id = <<"S","e","t"," ","G","o","a","l","s">>,
                 !.description = <<"n","o","w">>],
    \* a long title that reads as a meta step once cut to 80 characters
    [Swim EXCEPT !.title = Rep("a", TITLE_MAX - 4) \o <<" ","s","e","t","t","l","e">>,
                 !.description = <<"g","o","a","l","s">>],
    \* the first plain title in another case
    [Swim EXCEPT !.title = <<" ","R","U","N"," ","1"," ">>, !.id = None],
    \* a title longer than 80 characters
    [Swim EXCEPT !.title = LongTitle, !.id = <<"l","o","n","g">>],
    \* not an object
    [Swim EXCEPT !.isdict = FALSE],
    \* an order int() rejects
    [Swim EXCEPT !.order = <<"bad", 0>>],
    \* order absent
    Swim,
    \* a blank title, no id, no description
    [Swim EXCEPT !.title = <<" "," ">>, !.id = None, !.description = None],
    \* a title that is not a string
    [Swim EXCEPT !.title = NonStr],
    \* the first backfill title in another case, with an early order
    [Swim EXCEPT !.title = <<"j","o","g"," ","1">>, !.order = <<"int", 1>>],
    \* a late order
    [Swim EXCEPT !.order = <<"int", 3>>],
    \* an order that is not a whole number: 2.7
    [Swim EXCEPT !.order = <<"float", 27>>]
>>

\* what json.loads makes of a reply's text: see ParsePlan
PlanContents(base, maxLen) ==
    {[shape |-> "garbage", steps |-> <<>>], [shape |-> "nosteps", steps |-> <<>>]}
    \cup {[shape |-> "steps", steps |-> SubSeq(base, 1, n)] : n \in 0..maxLen}
    \cup UNION {UNION {{[shape |-> "steps",
                         steps |-> [SubSeq(base, 1, n) EXCEPT ![p] = Specials[k]]]
                        : k \in DOMAIN Specials}
                       : p \in 1..Min(n, MaxPos)}
                : n \in 1..maxLen}

FirstContents == PlanContents(FirstBase, MaxFirst)
BackfillContents == PlanContents(BackBase, MaxBack)

(***************************************************************************)
(* get_goal_breakdown, one action per stretch between awaits               *)
(***************************************************************************)
\* lines 128-133: up to the await of the first _call_groq
Breakdown_Call(goal) ==
    /\ bd_pc = "idle"
    /\ bd_goal' = goal
    /\ IF Strip(goal) = <<>>
       THEN /\ bd_pc' = "done"
            /\ bd_result' = <<>>
            /\ UNCHANGED <<bd_full, bd_calls, httpRequests>>
       ELSE /\ bd_pc' = "await_first"
            /\ bd_calls' = bd_calls + 1
            /\ httpRequests' = RequestsAfter(httpRequests)
            /\ UNCHANGED <<bd_result, bd_full>>
    /\ UNCHANGED <<apiKeySet, httpxInstalled, bd_steps, bd_gen, gqVars, csVars, dbVars, ceVars, evVars,
                   rtVars, nsVars, usVars>>

\* lines 134-168 (and 189-193 when there is no backfill): from the first reply
\* to the await in _generate_concrete_steps, or to the return
Breakdown_FirstReply(o) ==
    /\ bd_pc = "await_first"
    /\ LET steps == FirstSteps(_call_groq(apiKeySet, httpxInstalled, o))
       IN  /\ bd_steps' = steps
           /\ IF NeedsBackfill(bd_goal, steps)
              THEN /\ bd_pc' = "await_backfill"
                   /\ bd_gen' = Append(bd_gen, GenArgs(steps))
                   /\ bd_calls' = bd_calls + 1
                   /\ httpRequests' = RequestsAfter(httpRequests)
                   /\ UNCHANGED <<bd_result, bd_full>>
              ELSE /\ bd_pc' = "done"
                   /\ bd_result' = TrimAndRenumber(steps)
                   /\ bd_full' = Len(steps)
                   /\ UNCHANGED <<bd_gen, bd_calls, httpRequests>>
    /\ UNCHANGED <<apiKeySet, httpxInstalled, bd_goal, gqVars, csVars, dbVars, ceVars, evVars, rtVars,
                   nsVars, usVars>>

\* lines 239-250 and 169-193: from the backfill reply to the return
Breakdown_BackfillReply(o) ==
    /\ bd_pc = "await_backfill"
    /\ LET backfill == BackfillRaw(_call_groq(apiKeySet, httpxInstalled, o))
           steps == BackfillLoop(backfill, 1, bd_steps)
       IN  /\ bd_result' = TrimAndRenumber(steps)
           /\ bd_full' = Len(steps)
    /\ bd_pc' = "done"
    /\ UNCHANGED <<envVars, bd_goal, bd_steps, bd_calls, bd_gen, gqVars, csVars, dbVars, ceVars, evVars,
                   rtVars, nsVars, usVars>>

(***************************************************************************)
(* get_coaching_suggestion and its TTL cache                               *)
(* hashlib.sha256 is taken to be collision-free: a digest is identified    *)
(* with the bytes fed to the hash.                                         *)
(***************************************************************************)
CACHE_TTL_SECONDS == 600

MaxCoachCalls == 3   \* get_coaching_suggestion calls in a run
MaxTicks == 2        \* clock advances in a run

\* the clock advances by a second, or by a second less than the TTL
Deltas == {1, CACHE_TTL_SECONDS - 1}

\* lines 42-48
cache_key(ctx) ==
    OrEmpty(ctx.goal) \o ctx.recent_entries \o OrEmpty(ctx.journal_name)
        \o IntToStr(ctx.max_tokens)

\* lines 106-113: the parts of the prompt that come from the context
CoachPrompt(ctx) ==
    [goal_part |-> IF Falsy(ctx.goal) THEN <<"(No explicit goal provided)">> ELSE Strip(ctx.goal),
     entries_excerpt |-> IF Strip(ctx.recent_entries) = <<>> THEN <<"(No recent entries)">>
                         ELSE Strip(ctx.recent_entries)]

Ctx(goal, entries, name, max_tokens) ==
    [goal |-> goal, recent_entries |-> entries, journal_name |-> name, max_tokens |-> max_tokens]

Contexts ==
    {Ctx(<<"a","b">>, <<"c">>, None, 350),
     Ctx(<<"a">>, <<"b","c">>, None, 350),
     Ctx(<<"a">>, <<"c">>, None, 350),
     Ctx(None, <<"a","b","c">>, <<"3">>, 50)}

Suggestions == {<<"s","1">>, <<"s","2">>}

\* _cache.get(key), as <<>> for None and <<entry>> otherwise
CacheGet(cache, key) == IF key \in DOMAIN cache THEN <<cache[key]>> ELSE <<>>

\* mutant: an entry still served at the second it expires
CacheHitInclusive(found, t) == found # <<>> /\ found[1].expires_at >= t

\* line 103: `cached and cached[0] > now`
CacheHit(found, t) == found # <<>> /\ found[1].expires_at > t

\* dict item assignment
DictSet(d, k, v) == [x \in DOMAIN d \cup {k} |-> IF x = k THEN v ELSE d[x]]

\* line 115: the entry stored
CacheEntry(t, value) == [expires_at |-> t + CACHE_TTL_SECONDS, value |-> value]

\* a completed call joins the log, which keeps the last two
Logged(log, rec) == IF Len(log) < 2 THEN Append(log, rec) ELSE <<log[2], rec>>

\* the clock advances
Tick(d) ==
    /\ ticks < MaxTicks
    /\ ticks' = ticks + 1
    /\ now' = now + d
    /\ UNCHANGED <<envVars, bdVars, gqVars, dbVars, ceVars, evVars, _cache, cache_src, cs_pc, cs_ctx,
                   cs_now, cs_found, cs_calls, cs_log, rtVars, nsVars, usVars>>

\* lines 98-114: up to the return of the cached value, or to the await of _call_groq
Coach_Call(ctx) ==
    /\ cs_pc = "idle"
    /\ cs_calls < MaxCoachCalls
    /\ cs_calls' = cs_calls + 1
    /\ cs_ctx' = ctx
    /\ cs_now' = now
    /\ LET found == CacheGet(_cache, cache_key(ctx))
       IN  /\ cs_found' = found
           /\ IF CacheHit(found, now)
              THEN /\ cs_pc' = "idle"
                   /\ cs_log' = Logged(cs_log, [ctx |-> ctx, at |-> now, found |-> found,
                                                upstream |-> 0, result |-> found[1].value,
                                                src |-> cache_src[cache_key(ctx)]])
                   /\ UNCHANGED httpRequests
              ELSE /\ cs_pc' = "await"
                   /\ httpRequests' = RequestsAfter(httpRequests)
                   /\ UNCHANGED cs_log
    /\ UNCHANGED <<apiKeySet, httpxInstalled, bdVars, gqVars, dbVars, ceVars, evVars, _cache, cache_src, now, ticks,
                   rtVars, nsVars, usVars>>

\* lines 114-116: from the reply to the return
Coach_Reply(o) ==
    /\ cs_pc = "await"
    /\ cs_pc' = "idle"
    /\ LET suggestion == _call_groq(apiKeySet, httpxInstalled, o)
           key == cache_key(cs_ctx)
       IN  /\ _cache' = DictSet(_cache, key, CacheEntry(cs_now, suggestion))
           /\ cache_src' = DictSet(cache_src, key, cs_ctx)
           /\ cs_log' = Logged(cs_log, [ctx |-> cs_ctx, at |-> cs_now, found |-> cs_found,
                                        upstream |-> 1, result |-> suggestion,
                                        src |-> cs_ctx])
    /\ UNCHANGED <<envVars, bdVars, gqVars, dbVars, ceVars, evVars, now, ticks, cs_ctx, cs_now, cs_found,
                   cs_calls, rtVars, nsVars, usVars>>

(***************************************************************************)
(* main.py: dates, ObjectIds and the collections                           *)
(* The clock starts at 00:00:00 UTC of 2025-09-05 and the server's local   *)
(* time zone is UTC.                                                       *)
(***************************************************************************)
SECONDS_PER_DAY == 86400

DateOf(t) == [year |-> 2025, month |-> 9, day |-> 5 + (t \div SECONDS_PER_DAY)]

Pad2(n) == IF n < 10 THEN <<"0">> \o IntToStr(n) ELSE IntToStr(n)

\* strftime("%m/%d/%Y")
Padded(d) == Pad2(d.month) \o <<"/">> \o Pad2(d.day) \o <<"/">> \o IntToStr(d.year)

\* f"{month}/{day}/{year}"
Unpadded(d) == IntToStr(d.month) \o <<"/">> \o IntToStr(d.day) \o <<"/">> \o IntToStr(d.year)

\* date.isoformat()
Iso(d) == IntToStr(d.year) \o <<"-">> \o Pad2(d.month) \o <<"-">> \o Pad2(d.day)

\* strftime("%H:%M:%S")
TimeStr(t) ==
    LET sod == t % SECONDS_PER_DAY
    IN  Pad2(sod \div 3600) \o <<":">> \o Pad2((sod % 3600) \div 60) \o <<":">> \o Pad2(sod % 60)

\* str of the n-th ObjectId generated
Oid(n) == <<"o", "i", "d">> \o IntToStr(n)

\* ObjectId(s) does not raise
IsObjectId(s) ==
    /\ Len(s) > 3
    /\ Take(s, 3) = <<"o", "i", "d">>
    /\ \A i \in 4..Len(s) : s[i] \in Range(DigitChars)

Response(status, msg, entry_id) == [status |-> status, msg |-> msg, entry_id |-> entry_id]

\* the results find_one may give on the matching documents: <<>> for None
FindOne(matching) == IF matching = {} THEN {<<>>} ELSE {<<d>> : d \in matching}

Users == {<<"u1">>, <<"me">>}

(***************************************************************************)
(* add_journal_entry (POST /api/journal)                                   *)
(***************************************************************************)
MaxJournals == 1   \* documents in journals_collection

add_journal_entry(cookie, data) ==
    /\ Cardinality(journals_collection) < MaxJournals
    /\ LET user_id == IF ~Falsy(data.user_id) THEN data.user_id ELSE cookie
       IN  /\ ~Falsy(user_id)
           /\ ~Falsy(data.date)
           /\ journals_collection' = journals_collection \cup
                  {[_id |-> Oid(next_oid), user_id |-> user_id, date |-> data.date,
                    text |-> data.text, name |-> data.name, goal |-> data.goal,
                    created_at |-> IF Falsy(data.name) THEN <<>> ELSE <<now>>]}
           /\ next_oid' = next_oid + 1
    /\ UNCHANGED <<envVars, bdVars, gqVars, csVars, entries_collection, evaluations_collection,
                   ceVars, evVars, rtVars, nsVars, usVars>>

(***************************************************************************)
(* create_entry (POST /api/journal/{journal_id}/entries), one action per   *)
(* database operation, with the code that leads to it                      *)
(***************************************************************************)
MaxReq == 2       \* create_entry requests in progress at a time
MaxCreates == 3   \* create_entry requests in a run

Requests == 1..MaxReq

NoLocal == [journal |-> <<>>, date |-> <<>>, line |-> <<>>, existing |-> <<>>]

NoLog == [date |-> <<>>, line |-> <<>>]

\* the return of a request: its locals are gone
CeReturn(p, resp) ==
    /\ ce_pc' = [ce_pc EXCEPT ![p] = "done"]
    /\ ce_resp' = [ce_resp EXCEPT ![p] = resp]
    /\ ce_local' = [ce_local EXCEPT ![p] = NoLocal]

\* lines 215-222: to the find_one on journals_collection
Create_FindJournal(p, req) ==
    /\ ce_pc[p] \in {"idle", "done"}
    /\ ce_calls < MaxCreates
    /\ ce_calls' = ce_calls + 1
    /\ ce_req' = [ce_req EXCEPT ![p] = req]
    /\ ce_log' = [ce_log EXCEPT ![p] = NoLog]
    /\ IF Falsy(req.cookie)
       THEN CeReturn(p, Response(401, "Not authenticated", <<>>))
       ELSE IF ~IsObjectId(req.journal_id)
       THEN CeReturn(p, Response(400, "Invalid journal id", <<>>))
       ELSE /\ \E j \in FindOne({d \in journals_collection :
                                    d._id = req.journal_id /\ d.user_id = req.cookie}) :
                   ce_local' = [ce_local EXCEPT ![p] = [NoLocal EXCEPT !.journal = j]]
            /\ ce_pc' = [ce_pc EXCEPT ![p] = "journal_read"]
            /\ UNCHANGED ce_resp
    /\ UNCHANGED <<envVars, bdVars, gqVars, csVars, dbVars, evVars, rtVars, nsVars, usVars>>

\* f"[{time_str}] {text}"
EntryLine(time_str, text) == <<"[">> \o time_str \o <<"]", " ">> \o text

\* lines 223-236: to the find_one on entries_collection
Create_FindExisting(p) ==
    /\ ce_pc[p] = "journal_read"
    /\ LET req == ce_req[p]
           text == Strip(req.text)
           date == IF Falsy(req.date) THEN Padded(DateOf(now)) ELSE req.date
           time_str == IF Falsy(req.time) THEN TimeStr(now) ELSE req.time
       IN  IF ce_local[p].journal = <<>>
           THEN CeReturn(p, Response(404, "Journal not found", <<>>))
           ELSE IF text = <<>>
           THEN CeReturn(p, Response(400, "Text required", <<>>))
           ELSE /\ \E ex \in FindOne({d \in entries_collection :
                                         /\ d.journal_id = req.journal_id
                                         /\ d.user_id = req.cookie
                                         /\ d.date = date}) :
                       ce_local' = [ce_local EXCEPT ![p].date = date,
                                                    ![p].line = EntryLine(time_str, text),
                                                    ![p].existing = ex]
                /\ ce_pc' = [ce_pc EXCEPT ![p] = "entry_read"]
                /\ UNCHANGED ce_resp
    /\ UNCHANGED <<envVars, bdVars, gqVars, csVars, dbVars, evVars, ce_req, ce_calls, ce_log,
                   rtVars, nsVars, usVars>>

\* line 238
AppendedText(old, line) == IF old # <<>> THEN old \o <<"\n">> \o line ELSE line

\* update_one({"_id": id}, {"$set": {"text": text}})
UpdateText(coll, id, text) ==
    {IF d._id = id THEN [d EXCEPT !.text = text] ELSE d : d \in coll}

\* lines 237-243: the update_one or the insert_one, and the return
Create_Write(p) ==
    /\ ce_pc[p] = "entry_read"
    /\ ce_log' = [ce_log EXCEPT ![p] = [date |-> ce_local[p].date, line |-> ce_local[p].line]]
    /\ LET loc == ce_local[p]
           req == ce_req[p]
       IN  IF loc.existing # <<>>
           THEN /\ entries_collection' =
                       UpdateText(entries_collection, loc.existing[1]._id,
                                  AppendedText(loc.existing[1].text, loc.line))
                /\ CeReturn(p, Response(200, "Entry appended", loc.existing[1]._id))
                /\ UNCHANGED next_oid
           ELSE /\ entries_collection' = entries_collection \cup
                       {[_id |-> Oid(next_oid), journal_id |-> req.journal_id,
                         user_id |-> req.cookie, text |-> loc.line, date |-> loc.date]}
                /\ next_oid' = next_oid + 1
                /\ CeReturn(p, Response(200, "Entry created", Oid(next_oid)))
    /\ UNCHANGED <<envVars, bdVars, gqVars, csVars, journals_collection, evaluations_collection,
                   evVars, ce_req, ce_calls, rtVars, nsVars, usVars>>

\* request bodies and cookies
JournalData == {[user_id |-> u, date |-> <<"d">>, text |-> <<>>, name |-> <<"n">>, goal |-> <<"g">>]
                   : u \in {None} \cup Users}
                \cup {[user_id |-> None, date |-> None, text |-> <<>>, name |-> None, goal |-> None]}

Cookies == {None} \cup Users

EntryRequests ==
    {[cookie |-> c, journal_id |-> j, text |-> t, date |-> d, time |-> tm]
        : c \in {None, <<"u1">>},
          j \in {Oid(1), <<"z">>},
          t \in {<<" ">>, <<" ", "a">>, <<"b">>},
          d \in {None, Unpadded(DateOf(0))},
          tm \in {None, <<"9">>}}

(***************************************************************************)
(* get_entry_evaluation and coach_evaluate_entry                           *)
(* (POST /api/coach/evaluate/{journal_id}), one action per database        *)
(* operation or model call, with the code that leads to it.  Calls do not  *)
(* overlap: a call begins when the one before has returned.                *)
(***************************************************************************)
MaxEvalCalls == 2   \* coach_evaluate_entry calls in a run
MaxDays == 1        \* midnights that pass in a run
MaxEvalCreates == 2 \* create_entry requests among the calls

\* the clock advances by a day
Midnight ==
    /\ now \div SECONDS_PER_DAY < MaxDays
    /\ now' = now + SECONDS_PER_DAY
    /\ UNCHANGED <<envVars, bdVars, gqVars, dbVars, ceVars, evVars, _cache, cache_src, ticks,
                   cs_pc, cs_ctx, cs_now, cs_found, cs_calls, cs_log, rtVars, nsVars, usVars>>

NoEvalLocal == [journal |-> <<>>, today_dt |-> <<>>, evaluation |-> <<>>, key |-> <<>>, now |-> 0]

EvalResponse(status, detail, evaluation) ==
    [status |-> status, detail |-> detail, evaluation |-> evaluation]

\* ai_client.py lines 265-266
EvalGoalPart(goal) == IF Falsy(goal) THEN <<"(No explicit goal)">> ELSE Strip(goal)
EvalExcerpt(entry_text) ==
    IF Strip(entry_text) = <<>> THEN <<"(No content recorded)">> ELSE Strip(entry_text)

\* ai_client.py line 271: 'eval:' and the bytes fed to the hash
eval_key(goal, entry_text, date_str) ==
    <<"eval:">> \o EvalGoalPart(goal) \o EvalExcerpt(entry_text) \o date_str

\* the return of a call: its locals are gone
EvReturn(req, before, upstream, resp, today) ==
    /\ ev_pc' = "idle"
    /\ ev_req' = <<>>
    /\ ev_local' = NoEvalLocal
    /\ ev_before' = {}
    /\ ev_upstream' = 0
    /\ ev_log' = [req |-> req, before |-> before, today |-> today, upstream |-> upstream,
                  resp |-> resp]

\* main.py lines 418-425: to the find_one on journals_collection
Eval_FindJournal(req) ==
    /\ ev_pc = "idle"
    /\ ev_calls < MaxEvalCalls
    /\ ev_calls' = ev_calls + 1
    /\ IF Falsy(req.cookie)
       THEN EvReturn(req, evaluations_collection, 0,
                     EvalResponse(401, "Not authenticated", <<>>), Iso(DateOf(now)))
       ELSE IF ~IsObjectId(req.journal_id)
       THEN EvReturn(req, evaluations_collection, 0,
                     EvalResponse(400, "Invalid journal id", <<>>), Iso(DateOf(now)))
       ELSE /\ \E j \in FindOne({d \in journals_collection :
                                    d._id = req.journal_id /\ d.user_id = req.cookie}) :
                   ev_local' = [NoEvalLocal EXCEPT !.journal = j]
            /\ ev_pc' = "journal_read"
            /\ ev_req' = req
            /\ ev_before' = evaluations_collection
            /\ ev_upstream' = 0
            /\ UNCHANGED ev_log
    /\ UNCHANGED <<envVars, bdVars, gqVars, csVars, dbVars, ceVars, ev_gen, rtVars, nsVars, usVars>>

\* main.py lines 426-436: to the find_one on evaluations_collection
Eval_FindEvaluation ==
    /\ ev_pc = "journal_read"
    /\ LET today_dt == DateOf(now)
       IN  IF ev_local.journal = <<>>
           THEN EvReturn(ev_req, ev_before, ev_upstream,
                         EvalResponse(404, "Journal not found", <<>>), Iso(today_dt))
           ELSE \E existing_eval \in FindOne({d \in evaluations_collection :
                                                 /\ d.journal_id = ev_req.journal_id
                                                 /\ d.user_id = ev_req.cookie
                                                 /\ d.date = Iso(today_dt)}) :
                    IF existing_eval # <<>>
                    THEN EvReturn(ev_req, ev_before, ev_upstream,
                                  EvalResponse(200, "", existing_eval[1].evaluation),
                                  Iso(today_dt))
                    ELSE /\ ev_local' = [ev_local EXCEPT !.today_dt = today_dt]
                         /\ ev_pc' = "eval_read"
                         /\ UNCHANGED <<ev_req, ev_before, ev_upstream, ev_log>>
    /\ UNCHANGED <<envVars, bdVars, gqVars, csVars, dbVars, ceVars, ev_calls, ev_gen, rtVars, nsVars,
                   usVars>>

\* get_entry_evaluation has returned for the call's journal and user
Generated(gen, req, today_dt) ==
    LET k == <<req.journal_id, req.cookie>>
    IN  DictSet(gen, k, [n |-> IF k \in DOMAIN gen THEN gen[k].n + 1 ELSE 1,
                         day |-> Iso(today_dt)])

\* main.py lines 437-442 and ai_client.py lines 264-276: the find_one on
\* entries_collection, then get_entry_evaluation to its return of the cached
\* value or to its await of _call_groq
Eval_FindEntry ==
    /\ ev_pc = "eval_read"
    /\ LET today_dt == ev_local.today_dt
       IN  \E entry_doc \in FindOne({d \in entries_collection :
                                        /\ d.journal_id = ev_req.journal_id
                                        /\ d.user_id = ev_req.cookie
                                        /\ d.date \in {Padded(today_dt), Unpadded(today_dt)}}) :
               IF entry_doc = <<>>
               THEN /\ EvReturn(ev_req, ev_before, ev_upstream,
                                EvalResponse(400, "No entry found for today to evaluate", <<>>),
                                Iso(today_dt))
                    /\ UNCHANGED <<ev_gen, httpRequests>>
               ELSE LET key == eval_key(ev_local.journal[1].goal, entry_doc[1].text, Iso(today_dt))
                        cached == CacheGet(_cache, key)
                    IN  /\ IF CacheHit(cached, now)
                           THEN /\ ev_local' = [ev_local EXCEPT !.key = key, !.now = now,
                                                                !.evaluation = <<cached[1].value>>]
                                /\ ev_pc' = "generated"
                                /\ ev_gen' = Generated(ev_gen, ev_req, today_dt)
                                /\ UNCHANGED httpRequests
                           ELSE /\ ev_local' = [ev_local EXCEPT !.key = key, !.now = now]
                                /\ ev_pc' = "await_model"
                                /\ httpRequests' = RequestsAfter(httpRequests)
                                /\ UNCHANGED ev_gen
                        /\ UNCHANGED <<ev_req, ev_before, ev_upstream, ev_log>>
    /\ UNCHANGED <<apiKeySet, httpxInstalled, bdVars, gqVars, csVars, dbVars, ceVars, ev_calls, rtVars,
                   nsVars, usVars>>

\* ai_client.py lines 276-278: from the reply of the model to the return
Eval_ModelReply(o) ==
    /\ ev_pc = "await_model"
    /\ ev_pc' = "generated"
    /\ ev_upstream' = ev_upstream + 1
    /\ LET result == _call_groq(apiKeySet, httpxInstalled, o)
       IN  /\ _cache' = DictSet(_cache, ev_local.key, CacheEntry(ev_local.now, result))
           /\ ev_local' = [ev_local EXCEPT !.evaluation = <<result>>]
    /\ ev_gen' = Generated(ev_gen, ev_req, ev_local.today_dt)
    /\ UNCHANGED <<envVars, bdVars, gqVars, dbVars, ceVars, cache_src, now, ticks, cs_pc, cs_ctx,
                   cs_now, cs_found, cs_calls, cs_log, ev_req, ev_before, ev_calls, ev_log, rtVars,
                   nsVars, usVars>>

\* mutant: the filter without its $ne
OtherDaysSameDay(coll, journal_id, user_id, iso_today) ==
    {d \in coll : d.journal_id = journal_id /\ d.user_id = user_id /\ d.date = iso_today}

\* main.py line 444: the documents the filter of delete_many matches
OtherDays(coll, journal_id, user_id, iso_today) ==
    {d \in coll : d.journal_id = journal_id /\ d.user_id = user_id /\ d.date # iso_today}

\* main.py line 444: the delete_many
Eval_DeleteOthers ==
    /\ ev_pc = "generated"
    /\ ev_pc' = "deleted"
    /\ evaluations_collection' = evaluations_collection \
           OtherDays(evaluations_collection, ev_req.journal_id, ev_req.cookie,
                     Iso(ev_local.today_dt))
    /\ UNCHANGED <<envVars, bdVars, gqVars, csVars, journals_collection, entries_collection,
                   next_oid, ceVars, ev_req, ev_local, ev_before, ev_upstream, ev_calls, ev_log,
                   ev_gen, rtVars, nsVars, usVars>>

\* main.py lines 445-452: the insert_one and the return
Eval_Insert ==
    /\ ev_pc = "deleted"
    /\ evaluations_collection' = evaluations_collection \cup
           {[_id |-> Oid(next_oid), journal_id |-> ev_req.journal_id, user_id |-> ev_req.cookie,
             date |-> Iso(ev_local.today_dt), evaluation |-> ev_local.evaluation[1],
             created_at |-> now]}
    /\ next_oid' = next_oid + 1
    /\ EvReturn(ev_req, ev_before, ev_upstream,
                EvalResponse(200, "", ev_local.evaluation[1]), Iso(ev_local.today_dt))
    /\ UNCHANGED <<envVars, bdVars, gqVars, csVars, journals_collection, entries_collection,
                   ceVars, ev_calls, ev_gen, rtVars, nsVars, usVars>>

Evaluations == {<<"e", "1">>}

EvalJournalData == {[user_id |-> None, date |-> <<"d">>, text |-> <<>>, name |-> None,
                     goal |-> <<"g">>]}

EvalEntryRequests ==
    {[cookie |-> <<"u1">>, journal_id |-> Oid(1), text |-> <<"a">>, date |-> None, time |-> None]}

EvalRequests == {[cookie |-> None, journal_id |-> Oid(1)]}
                \cup {[cookie |-> <<"u1">>, journal_id |-> j] : j \in {Oid(1), Oid(2), <<"z">>}}

(***************************************************************************)
(* main.py: the routes, in the order of their declaration.  A path is the  *)
(* sequence of its segments; a segment of a route is a literal or a path   *)
(* parameter.  The router serves a request by the first route whose path   *)
(* and method match; when none does, the first route whose path matches    *)
(* answers 405, and without one the answer is 404.                         *)
(***************************************************************************)
Lit1(name) == <<name>>
Param(name) == <<"{", name>>

Route(method, path, endpoint) ==
    [method |-> method, path |-> path, endpoint |-> endpoint, mount |-> FALSE]

Routes ==
    << Route("GET", <<Lit1("api"), Lit1("start-date")>>, "get_start_date"),
       Route("GET", <<Lit1("api"), Lit1("journal")>>, "get_journal"),
       Route("GET", <<>>, "root"),
       Route("GET", <<Lit1("login")>>, "login_page"),
       Route("GET", <<Lit1("journals")>>, "journals_page"),
       Route("GET", <<Lit1("journals"), Param("journal_id")>>, "journal_detail_page"),
       Route("POST", <<Lit1("api"), Lit1("register")>>, "register_user"),
       Route("POST", <<Lit1("api"), Lit1("login")>>, "login_user"),
       Route("POST", <<Lit1("api"), Lit1("logout")>>, "logout_user"),
       [method |-> "", path |-> <<Lit1("static")>>, endpoint |-> "static", mount |-> TRUE],
       Route("GET", <<Lit1("old")>>, "serve_old_index"),
       Route("POST", <<Lit1("api"), Lit1("journal")>>, "add_journal_entry"),
       Route("PUT", <<Lit1("api"), Lit1("journal"), Param("journal_id")>>, "update_journal"),
       Route("GET", <<Lit1("api"), Lit1("journal"), Param("user_id")>>, "get_user_journal"),
       Route("GET", <<Lit1("api"), Lit1("journal"), Lit1("me")>>, "get_my_journal"),
       Route("POST", <<Lit1("api"), Lit1("journal"), Param("journal_id"), Lit1("entries")>>,
             "create_entry"),
       Route("GET", <<Lit1("api"), Lit1("journal"), Param("user_id"), Param("journal_id"),
                      Lit1("entries")>>, "list_entries"),
       Route("PUT", <<Lit1("api"), Lit1("journal"), Lit1("entry"), Param("entry_id")>>,
             "update_entry"),
       Route("DELETE", <<Lit1("api"), Lit1("journal"), Lit1("entry"), Param("entry_id")>>,
             "delete_entry"),
       Route("POST", <<Lit1("api"), Lit1("coach"), Lit1("suggest")>>, "coach_suggest"),
       Route("POST", <<Lit1("api"), Lit1("coach"), Lit1("breakdown")>>, "coach_breakdown"),
       Route("GET", <<Lit1("api"), Lit1("coach"), Lit1("plan"), Param("journal_id")>>,
             "coach_get_plan"),
       Route("POST", <<Lit1("api"), Lit1("coach"), Lit1("plan"), Param("journal_id"),
                       Lit1("toggle")>>, "toggle_step_completion"),
       Route("POST", <<Lit1("api"), Lit1("coach"), Lit1("evaluate"), Param("journal_id")>>,
             "coach_evaluate_entry") >>

IsParam(seg) == Len(seg) = 2 /\ seg[1] = "{"

\* the path of the request matches the path of the route
PathMatches(route, path) ==
    IF route.mount
    THEN Len(path) > Len(route.path) /\ SubSeq(path, 1, Len(route.path)) = route.path
    ELSE /\ Len(path) = Len(route.path)
         /\ \A i \in 1..Len(path) : IsParam(route.path[i]) \/ route.path[i] = path[i]

RouteMatch(route, method, path) ==
    IF ~PathMatches(route, path) THEN "NONE"
    ELSE IF route.mount \/ route.method = method THEN "FULL"
    ELSE "PARTIAL"

\* the path parameter `name` of the request, as the route sees it
PathParam(route, path, name) ==
    path[CHOOSE i \in 1..Len(route.path) : route.path[i] = Param(name)]

FirstOf(S) == CHOOSE i \in S : \A j \in S : i <= j

\* the index in Routes of the route that serves the request; 0 with "405" or "404"
Dispatch(method, path) ==
    LET full == {i \in 1..Len(Routes) : RouteMatch(Routes[i], method, path) = "FULL"}
        partial == {i \in 1..Len(Routes) : RouteMatch(Routes[i], method, path) = "PARTIAL"}
    IN  IF full # {} THEN [route |-> FirstOf(full), endpoint |-> Routes[FirstOf(full)].endpoint]
        ELSE IF partial # {} THEN [route |-> 0, endpoint |-> "405"]
        ELSE [route |-> 0, endpoint |-> "404"]

HttpResponse(status, endpoint, detail, entries) ==
    [status |-> status, endpoint |-> endpoint, detail |-> detail, entries |-> entries]

\* lines 193-199: get_user_journal
get_user_journal(user_id) ==
    HttpResponse(200, "get_user_journal", "", {d \in journals_collection : d.user_id = user_id})

\* lines 202-211: get_my_journal
get_my_journal(cookie) ==
    IF Falsy(cookie) THEN HttpResponse(401, "get_my_journal", "Not authenticated", {})
    ELSE HttpResponse(200, "get_my_journal", "", {d \in journals_collection : d.user_id = cookie})

\* the response to a request that one of the two endpoints, or no endpoint, serves
Serve(method, path, cookie) ==
    LET d == Dispatch(method, path)
    IN  CASE d.endpoint = "get_user_journal" ->
                 get_user_journal(PathParam(Routes[d.route], path, "user_id"))
          [] d.endpoint = "get_my_journal" -> get_my_journal(cookie)
          [] d.endpoint = "405" -> HttpResponse(405, "", "Method Not Allowed", {})
          [] d.endpoint = "404" -> HttpResponse(404, "", "Not Found", {})

\* a request arrives and is answered
Http_Request(method, path, cookie) ==
    /\ Dispatch(method, path).endpoint \in {"get_user_journal", "get_my_journal", "405", "404"}
    /\ rt_req' = [method |-> method, path |-> path, cookie |-> cookie]
    /\ rt_resp' = Serve(method, path, cookie)
    /\ UNCHANGED <<envVars, bdVars, gqVars, csVars, dbVars, ceVars, evVars, nsVars, usVars>>

JournalMePath == <<Lit1("api"), Lit1("journal"), Lit1("me")>>

RoutePaths == {JournalMePath,
               <<Lit1("api"), Lit1("journal"), Lit1("u1")>>,
               <<Lit1("api"), Lit1("journal"), Lit1("me"), Lit1("x")>>,
               <<Lit1("api"), Lit1("journals")>>}

RouteMethods == {"GET", "DELETE"}

(***************************************************************************)
(* main.py: _normalize_steps                                               *)
(* An element of the argument is a dict or not; a dict is modelled by its  *)
(* keys 'order' and 'completed', each <<>> when absent, and by `name`,     *)
(* which stands for its other keys.  A value of 'order' is <<kind, v>>:    *)
(* an int v, a str of rank v, or None.  A value of 'completed' is a        *)
(* Python literal.  The argument is a list or some other value.            *)
(***************************************************************************)
NORMALIZE_MAX == 8

ListArg(items) == [islist |-> TRUE, items |-> items]
NotAList == [islist |-> FALSE, items |-> <<>>]

\* lines 367-368
AsList(steps) == IF ~steps.islist THEN <<>> ELSE steps.items

\* line 369
IsDict(s) == s.isdict
OnlyDicts(steps) == SelectSeq(steps, IsDict)

\* s.get('order', 0)
OrderKey(s) == IF s.order = <<>> THEN <<"int", 0>> ELSE s.order[1]

\* the keys of the list can be compared with each other: no comparison is
\* made on a list of fewer than two elements
KeysComparable(steps) ==
    \/ Len(steps) <= 1
    \/ \A i \in 1..Len(steps) : OrderKey(steps[i])[1] = "int"
    \/ \A i \in 1..Len(steps) : OrderKey(steps[i])[1] = "str"

\* list.sort(key=...) on keys that can be compared: stable
RECURSIVE SortByKey(_)
SortByKey(steps) ==
    IF Len(steps) <= 1 THEN steps
    ELSE LET front == SortByKey(SubSeq(steps, 1, Len(steps) - 1))
             last == steps[Len(steps)]
             k == Cardinality({i \in 1..Len(front) : OrderKey(front[i])[2] <= OrderKey(last)[2]})
         IN  SubSeq(front, 1, k) \o <<last>> \o SubSeq(front, k + 1, Len(front))

\* lines 370-373: the list after the sort.  A comparison that raises leaves
\* the list partly sorted: the elements before some position are sorted and
\* the others are where they were
AfterSort(steps) ==
    IF KeysComparable(steps) THEN {SortByKey(steps)}
    ELSE {SortByKey(SubSeq(steps, 1, k)) \o SubSeq(steps, k + 1, Len(steps))
             : k \in {j \in 0..Len(steps) : KeysComparable(SubSeq(steps, 1, j))}}

\* mutant: no trim
NormTrimNone(steps) == steps

\* lines 375-376
NormTrim(steps) == IF Len(steps) > NORMALIZE_MAX THEN SubSeq(steps, 1, NORMALIZE_MAX) ELSE steps

\* lines 377-380
NormStep(s, i) ==
    [s EXCEPT !.order = << <<"int", i>> >>,
              !.completed = IF s.completed = <<>> THEN <<"False">> ELSE s.completed]

NormNumber(steps) == [i \in 1..Len(steps) |-> NormStep(steps[i], i)] \o <<>>

\* lines 366-381: the values _normalize_steps may return
_normalize_steps(steps) ==
    {NormNumber(NormTrim(sorted)) : sorted \in AfterSort(OnlyDicts(AsList(steps)))}

\* the arguments: every list of up to MaxNormLen elements drawn from the
\* templates, and lists of about NORMALIZE_MAX elements
MaxNormLen == 3

NormElement(isdict, name, order, completed) ==
    [isdict |-> isdict, name |-> name, order |-> order, completed |-> completed]

NormTemplates ==
    << NormElement(FALSE, 0, <<>>, <<>>),
       NormElement(TRUE, 0, <<>>, <<>>),
       NormElement(TRUE, 0, << <<"int", 2>> >>, <<"True">>),
       NormElement(TRUE, 0, << <<"int", 1>> >>, <<"False">>),
       NormElement(TRUE, 0, << <<"str", 1>> >>, <<"'yes'">>),
       NormElement(TRUE, 0, << <<"none", 0>> >>, <<>>) >>

\* the element at position i of an argument
Named(t, i) == [t EXCEPT !.name = i]

ShortLists ==
    UNION {{[i \in 1..n |-> Named(NormTemplates[f[i]], i)] \o <<>>
               : f \in [1..n -> 1..Len(NormTemplates)]} : n \in 0..MaxNormLen}

\* n dicts in descending order, the one at position `odd` replaced by template t
LongList(n, odd, t) ==
    [i \in 1..n |-> IF i = odd THEN Named(NormTemplates[t], i)
                    ELSE NormElement(TRUE, i, << <<"int", n + 1 - i>> >>,
                                     IF i % 2 = 0 THEN <<"True">> ELSE <<>>)] \o <<>>

LongLists ==
    {LongList(n, odd, t) : n \in (NORMALIZE_MAX - 1)..(NORMALIZE_MAX + 2),
                           odd \in {0, 2, NORMALIZE_MAX},
                           t \in 1..Len(NormTemplates)}

NormArguments == {NotAList} \cup {ListArg(l) : l \in ShortLists \cup LongLists}

\* _normalize_steps(steps)
Normalize_Call(steps) ==
    /\ ns_pc = "idle"
    /\ ns_pc' = "once"
    /\ ns_in' = steps
    /\ ns_out' \in _normalize_steps(steps)
    /\ UNCHANGED <<envVars, bdVars, gqVars, csVars, dbVars, ceVars, evVars, rtVars, ns_again, usVars>>

\* _normalize_steps on its own result
Normalize_Again ==
    /\ ns_pc = "once"
    /\ ns_pc' = "twice"
    /\ ns_again' \in _normalize_steps(ListArg(ns_out))
    /\ UNCHANGED <<envVars, bdVars, gqVars, csVars, dbVars, ceVars, evVars, rtVars, ns_in, ns_out,
                   usVars>>

(***************************************************************************)
(* register_user (main.py).  One action per database operation, with the   *)
(* code that leads to it: requests interleave at the awaits.               *)
(***************************************************************************)
MaxRegisters == 3   \* register_user requests in a run

NoUser == [username |-> None, password |-> None]
NoUserLog == [existed |-> FALSE, inserted |-> FALSE]

\* the response of register_user; a success sets the cookie user_id
RegisterResponse(status, msg, user_id) ==
    [status |-> status, msg |-> msg, user_id |-> user_id, cookie |-> user_id]

\* pwd_context.hash: a bcrypt hash of the password under a fresh salt
Salts == {"s1", "s2"}
get_password_hash(password, salt) == <<"$", "2", "b", "$", salt, "$">> \o password

\* the documents of a username
WithUsername(username) == {d \in users_collection : d.username = username}

\* lines 114-118: to the find_one on users_collection
Register_FindUser(p, user) ==
    /\ us_pc[p] \in {"idle", "done"}
    /\ us_calls < MaxRegisters
    /\ us_calls' = us_calls + 1
    /\ us_req' = [us_req EXCEPT ![p] = user]
    /\ us_log' = [us_log EXCEPT ![p] = NoUserLog]
    /\ IF Falsy(user.username) \/ Falsy(user.password)
       THEN /\ us_pc' = [us_pc EXCEPT ![p] = "done"]
            /\ us_resp' = [us_resp EXCEPT ![p] =
                               RegisterResponse(400, "Username and password required.", <<>>)]
            /\ us_existing' = [us_existing EXCEPT ![p] = <<>>]
       ELSE /\ \E ex \in FindOne(WithUsername(user.username)) :
                   us_existing' = [us_existing EXCEPT ![p] = ex]
            /\ us_pc' = [us_pc EXCEPT ![p] = "user_read"]
            /\ us_resp' = [us_resp EXCEPT ![p] = <<>>]
    /\ UNCHANGED <<envVars, bdVars, gqVars, csVars, dbVars, ceVars, evVars, rtVars, nsVars,
                   users_collection>>

\* lines 119-126: the check of `existing`, the insert_one and the return
Register_Insert(p) ==
    /\ us_pc[p] = "user_read"
    /\ us_pc' = [us_pc EXCEPT ![p] = "done"]
    /\ us_existing' = [us_existing EXCEPT ![p] = <<>>]
    /\ LET req == us_req[p]
           existed == WithUsername(req.username) # {}
       IN  IF us_existing[p] # <<>>
           THEN /\ us_resp' = [us_resp EXCEPT ![p] =
                                   RegisterResponse(400, "Username already exists.", <<>>)]
                /\ us_log' = [us_log EXCEPT ![p] = [existed |-> existed, inserted |-> FALSE]]
                /\ UNCHANGED <<users_collection, next_oid>>
           ELSE /\ \E salt \in Salts :
                       users_collection' = users_collection \cup
                           {[_id |-> Oid(next_oid), username |-> req.username,
                             hashed_password |-> get_password_hash(req.password, salt)]}
                /\ next_oid' = next_oid + 1
                /\ us_resp' = [us_resp EXCEPT ![p] =
                                   RegisterResponse(200, "User registered successfully.",
                                                    Oid(next_oid))]
                /\ us_log' = [us_log EXCEPT ![p] = [existed |-> existed, inserted |-> TRUE]]
    /\ UNCHANGED <<envVars, bdVars, gqVars, csVars, journals_collection, entries_collection,
                   evaluations_collection, ceVars, evVars, rtVars, nsVars, us_req, us_calls>>

\* request bodies
Usernames == {<<"a", "n", "n">>, <<"b", "o", "b">>}
Passwords == {<<"p">>, <<"q">>}
RegisterBodies ==
    {[username |-> u, password |-> pw] : u \in {None, <<>>} \cup Usernames,
                                         pw \in {None} \cup Passwords}

(***************************************************************************)
(* Specifications                                                          *)
(***************************************************************************)
Init ==
    /\ apiKeySet \in BOOLEAN
    /\ httpxInstalled \in BOOLEAN
    /\ httpRequests = 0
    /\ bd_pc = "idle"
    /\ bd_goal = <<>>
    /\ bd_steps = <<>>
    /\ bd_result = <<>>
    /\ bd_full = 0
    /\ bd_calls = 0
    /\ bd_gen = <<>>
    /\ gq_pc = "idle"
    /\ gq_args = <<>>
    /\ gq_payload = <<>>
    /\ gq_reply = <<>>
    /\ gq_calls = 0
    /\ _cache = <<>>
    /\ cache_src = <<>>
    /\ now = 0
    /\ ticks = 0
    /\ cs_pc = "idle"
    /\ cs_ctx = <<>>
    /\ cs_now = 0
    /\ cs_found = <<>>
    /\ cs_calls = 0
    /\ cs_log = <<>>
    /\ journals_collection = {}
    /\ entries_collection = {}
    /\ next_oid = 1
    /\ ce_pc = [p \in Requests |-> "idle"]
    /\ ce_req = [p \in Requests |-> <<>>]
    /\ ce_local = [p \in Requests |-> NoLocal]
    /\ ce_resp = [p \in Requests |-> <<>>]
    /\ ce_calls = 0
    /\ ce_log = [p \in Requests |-> NoLog]
    /\ evaluations_collection = {}
    /\ ev_pc = "idle"
    /\ ev_req = <<>>
    /\ ev_local = NoEvalLocal
    /\ ev_before = {}
    /\ ev_upstream = 0
    /\ ev_calls = 0
    /\ ev_log = <<>>
    /\ ev_gen = <<>>
    /\ rt_req = <<>>
    /\ rt_resp = <<>>
    /\ ns_pc = "idle"
    /\ ns_in = NotAList
    /\ ns_out = <<>>
    /\ ns_again = <<>>
    /\ users_collection = {}
    /\ us_pc = [p \in Requests |-> "idle"]
    /\ us_req = [p \in Requests |-> NoUser]
    /\ us_existing = [p \in Requests |-> <<>>]
    /\ us_resp = [p \in Requests |-> <<>>]
    /\ us_calls = 0
    /\ us_log = [p \in Requests |-> NoUserLog]

NextBreakdown ==
    \/ \E goal \in Goals : Breakdown_Call(goal)
    \/ \E o \in OutcomesFor(FailureKinds, FirstContents) : Breakdown_FirstReply(o)
    \/ \E o \in OutcomesFor(FailureKinds, BackfillContents) : Breakdown_BackfillReply(o)

\* one call of get_goal_breakdown
SpecBreakdown == Init /\ [][NextBreakdown]_vars

NextGroq ==
    \/ \E p \in GroqPrompts, m \in GroqMaxTokens, sp \in GroqSystemPrompts : Groq_Call(p, m, sp)
    \/ \E o \in HttpOutcomes(FailureKinds, GroqContents) : Groq_Reply(o)

\* direct calls of _call_groq
SpecGroq == Init /\ [][NextGroq]_vars

NextCoach ==
    \/ \E d \in Deltas : Tick(d)
    \/ \E ctx \in Contexts : Coach_Call(ctx)
    \/ \E o \in OutcomesFor({"429"}, Suggestions) : Coach_Reply(o)

\* non-overlapping calls of get_coaching_suggestion, as time passes
SpecCoach == Init /\ [][NextCoach]_vars

NextEntries ==
    \/ \E c \in {<<"u1">>}, data \in JournalData : add_journal_entry(c, data)
    \/ \E p \in Requests, req \in EntryRequests : Create_FindJournal(p, req)
    \/ \E p \in Requests : Create_FindExisting(p)
    \/ \E p \in Requests : Create_Write(p)

\* create_entry requests that interleave at their database operations
SpecEntries == Init /\ [][NextEntries]_vars

NextEval ==
    \/ \E data \in EvalJournalData : add_journal_entry(<<"u1">>, data)
    \/ \E req \in EvalEntryRequests : ce_calls < MaxEvalCreates /\ Create_FindJournal(1, req)
    \/ Create_FindExisting(1)
    \/ Create_Write(1)
    \/ Midnight
    \/ \E req \in EvalRequests : Eval_FindJournal(req)
    \/ Eval_FindEvaluation
    \/ Eval_FindEntry
    \/ \E o \in OutcomesFor({"429"}, Evaluations) : Eval_ModelReply(o)
    \/ Eval_DeleteOthers
    \/ Eval_Insert

\* coach_evaluate_entry calls, one after the other, among entries being created
\* and days passing
SpecEval == Init /\ [][NextEval]_vars

NextRoutes ==
    \/ \E c \in Cookies, data \in JournalData : add_journal_entry(c, data)
    \/ \E m \in RouteMethods, path \in RoutePaths, c \in Cookies : Http_Request(m, path, c)

\* requests to the journal endpoints, among journals being added
SpecRoutes == Init /\ [][NextRoutes]_vars

NextNormalize ==
    \/ \E steps \in NormArguments : Normalize_Call(steps)
    \/ Normalize_Again

\* _normalize_steps applied to an argument, then to its result
SpecNormalize == Init /\ [][NextNormalize]_vars

NextRegister ==
    \/ \E p \in Requests, user \in RegisterBodies : Register_FindUser(p, user)
    \/ \E p \in Requests : Register_Insert(p)

\* register_user requests that interleave at their database operations
SpecRegister == Init /\ [][NextRegister]_vars

(***************************************************************************)
(* Properties of get_goal_breakdown                                        *)
(***************************************************************************)
BreakdownReturned == bd_pc = "done"

\* C1: get_goal_breakdown returns at most 8 steps, and their 'order' fields
\* are 1, 2, ..., n in list position order.
C1_AtMostEightNumbered ==
    BreakdownReturned =>
        /\ Len(bd_result) <= MAX_STEPS
        /\ \A i \in 1..Len(bd_result) : bd_result[i].order = i

\* C1 witness: a call that used both replies, had more than 8 steps in hand
\* and returned 8.
C1_Witness ==
    /\ BreakdownReturned
    /\ Len(bd_gen) = 1
    /\ bd_full > MAX_STEPS
    /\ Len(bd_result) = MAX_STEPS

\* the text _is_meta_goal_step is applied to, for a returned step
ReturnedCombo(step) == LowerCombo(step.title, step.description)

\* C2 (as claimed): no returned step is a meta goal-definition step, that is
\* _is_meta_goal_step of the lower-cased '<title> <description>' of every
\* returned step is False.
C2_NoMetaStepReturned ==
    BreakdownReturned =>
        \A i \in 1..Len(bd_result) : ~_is_meta_goal_step(ReturnedCombo(bd_result[i]))

\* C6: for a non-blank goal _generate_concrete_steps is called exactly once,
\* after the first reply's steps have been filtered, iff fewer than 8 steps
\* survived, with count = 8 - survivors and start_order = survivors + 1; one
\* invocation makes at most 2 model calls.
C6_BackfillCall ==
    /\ bd_pc \in {"idle", "await_first"} => bd_gen = <<>>
    /\ (bd_pc \in {"await_backfill", "done"} /\ Strip(bd_goal) # <<>>) =>
           /\ Len(bd_gen) = (IF Len(bd_steps) < MAX_STEPS THEN 1 ELSE 0)
           /\ bd_gen # <<>> =>
                  /\ bd_gen[1].count = MAX_STEPS - Len(bd_steps)
                  /\ bd_gen[1].start_order = Len(bd_steps) + 1
           /\ bd_calls = 1 + Len(bd_gen)
    /\ bd_calls <= 2

\* C6 witness: 5 steps survived the first reply and the backfill call asked
\* for 3 more.
C6_Witness ==
    /\ bd_pc = "await_backfill"
    /\ Len(bd_steps) = 5
    /\ bd_gen[1].count = 3
    /\ bd_calls = 2

\* C7 (as claimed): no two returned steps have titles that are equal when
\* compared case-insensitively.
C7_NoDuplicateTitles ==
    BreakdownReturned =>
        \A i, j \in 1..Len(bd_result) :
            i # j => Lower(bd_result[i].title) # Lower(bd_result[j].title)

(***************************************************************************)
(* Properties of _call_groq                                                *)
(***************************************************************************)
\* C5: without GROQ_API_KEY, _call_groq sends no HTTP request and returns
\* the same fixed placeholder for every prompt, max_tokens and system
\* prompt; every call returns.
C5_PlaceholderWithoutKey ==
    ~apiKeySet =>
        /\ httpRequests = 0
        /\ gq_payload = <<>>
        /\ gq_calls > 0 =>
               /\ gq_pc = "returned"
               /\ gq_reply = [kind |-> "placeholder", body |-> <<>>]

\* C5 witness: the second direct call without a key, httpx being installed,
\* with a system prompt of its own, has returned.
C5_Witness ==
    /\ ~apiKeySet
    /\ httpxInstalled
    /\ gq_calls = 2
    /\ gq_pc = "returned"
    /\ gq_args.system_prompt = PLAN_SYSTEM_PROMPT
    /\ gq_args.max_tokens = 300

(***************************************************************************)
(* Properties of get_coaching_suggestion                                   *)
(***************************************************************************)
\* a completed call made no model call iff it found an entry that expires
\* strictly after the time it read, and then returned the entry's value;
\* otherwise it made exactly one model call
ServedByRule(rec) ==
    /\ rec.upstream \in {0, 1}
    /\ rec.upstream = 0 <=> (rec.found # <<>> /\ rec.found[1].expires_at > rec.at)
    /\ rec.upstream = 0 => rec.result = rec.found[1].value

\* the last completed call, if it called the model, left its result in
\* _cache with expires_at = now + CACHE_TTL_SECONDS
LastMissStored ==
    (cs_log # <<>> /\ cs_log[Len(cs_log)].upstream = 1) =>
        LET rec == cs_log[Len(cs_log)]
            key == cache_key(rec.ctx)
        IN  /\ key \in DOMAIN _cache
            /\ _cache[key] = [expires_at |-> rec.at + CACHE_TTL_SECONDS, value |-> rec.result]

CacheRule == (\A i \in DOMAIN cs_log : ServedByRule(cs_log[i])) /\ LastMissStored

\* two consecutive completed calls with the same content, less than
\* CACHE_TTL_SECONDS apart
CloseRepeat ==
    /\ Len(cs_log) = 2
    /\ cs_log[1].ctx = cs_log[2].ctx
    /\ cs_log[2].at - cs_log[1].at < CACHE_TTL_SECONDS

\* C3 (as claimed): the cache rule, and two calls with unchanged content less
\* than CACHE_TTL_SECONDS apart produce one upstream call (none when both are
\* served from an earlier call's entry) and equal results.
C3_AsClaimed ==
    /\ CacheRule
    /\ CloseRepeat =>
           /\ cs_log[1].upstream + cs_log[2].upstream <= 1
           /\ cs_log[1].result = cs_log[2].result

\* C3 (amended): the cache rule, and two calls with unchanged content less
\* than CACHE_TTL_SECONDS apart produce at most one upstream call; when the
\* first of them called the model, the second calls nothing and their
\* results are equal.
C3_CacheTTL ==
    /\ CacheRule
    /\ CloseRepeat =>
           /\ cs_log[1].upstream + cs_log[2].upstream <= 1
           /\ cs_log[1].upstream = 1 =>
                  /\ cs_log[2].upstream = 0
                  /\ cs_log[1].result = cs_log[2].result

\* C3 witness: a call that called the model, and the same content asked
\* again one second before the entry expires, served from the cache.
C3_Witness ==
    /\ Len(cs_log) = 2
    /\ cs_log[1].ctx = cs_log[2].ctx
    /\ cs_log[1].upstream = 1
    /\ cs_log[2].upstream = 0
    /\ cs_log[2].at - cs_log[1].at = CACHE_TTL_SECONDS - 1

\* two contexts with the same goal text, recent_entries, journal_name and max_tokens
SameContent(c1, c2) ==
    /\ OrEmpty(c1.goal) = OrEmpty(c2.goal)
    /\ c1.recent_entries = c2.recent_entries
    /\ OrEmpty(c1.journal_name) = OrEmpty(c2.journal_name)
    /\ c1.max_tokens = c2.max_tokens

\* C4 (as claimed): get_coaching_suggestion never returns to a context a
\* suggestion that was generated for a context that differs from it in goal
\* text, recent_entries, journal_name or max_tokens.
C4_NoCrossContextHit ==
    \A i \in DOMAIN cs_log : SameContent(cs_log[i].src, cs_log[i].ctx)

(***************************************************************************)
(* Properties of create_entry                                              *)
(***************************************************************************)
\* C8 (as claimed): in every reachable state, also when create_entry requests
\* for the same journal, user and date interleave at their await points,
\* entries_collection holds at most one document per (journal_id, user_id,
\* date).
C8_OneDocumentPerDay ==
    \A d1, d2 \in entries_collection :
        (d1.journal_id = d2.journal_id /\ d1.user_id = d2.user_id /\ d1.date = d2.date)
            => d1 = d2

\* the text has the line among its lines
HasLine(text, line) ==
    \E i \in 1..Len(text) :
        LET j == i + Len(line) - 1
        IN  /\ j <= Len(text)
            /\ SubSeq(text, i, j) = line
            /\ i = 1 \/ text[i - 1] = "\n"
            /\ j = Len(text) \/ text[j + 1] = "\n"

\* the request of the slot has returned success
Succeeded(p) == ce_pc[p] = "done" /\ ce_resp[p] # <<>> /\ ce_resp[p].status = 200

\* C13 (as claimed): once create_entry requests for the same journal, user
\* and date have all returned success, also when they interleave between the
\* find_one that reads the existing text and the update_one that writes the
\* new one, the text stored for that date holds the "[time] text" line of
\* each of them.
C13_NoLineLost ==
    (\A q \in Requests : ce_pc[q] \in {"idle", "done"}) =>
        \A p \in Requests :
            Succeeded(p) =>
                \E d \in entries_collection :
                    /\ d.journal_id = ce_req[p].journal_id
                    /\ d.user_id = ce_req[p].cookie
                    /\ d.date = ce_log[p].date
                    /\ HasLine(d.text, ce_log[p].line)

(***************************************************************************)
(* Properties of coach_evaluate_entry                                      *)
(***************************************************************************)
\* the documents the last completed call had for its journal, user and day
StoredForToday ==
    {d \in ev_log.before : /\ d.journal_id = ev_log.req.journal_id
                           /\ d.user_id = ev_log.req.cookie
                           /\ d.date = ev_log.today}

\* C9: after any sequence of coach_evaluate_entry calls that do not overlap,
\* evaluations_collection holds at most one document per (journal_id,
\* user_id), dated with the UTC day of the most recent call that generated an
\* evaluation for them; and a call made while a document for today exists
\* returns the stored evaluation, makes no model call and leaves the
\* collection as it was.
C9_EphemeralPerDay ==
    ev_pc = "idle" =>
        /\ \A d1, d2 \in evaluations_collection :
               (d1.journal_id = d2.journal_id /\ d1.user_id = d2.user_id) => d1 = d2
        /\ \A d \in evaluations_collection :
               /\ <<d.journal_id, d.user_id>> \in DOMAIN ev_gen
               /\ d.date = ev_gen[<<d.journal_id, d.user_id>>].day
        /\ (ev_log # <<>> /\ StoredForToday # {}) =>
               /\ ev_log.resp.status = 200
               /\ \E d \in StoredForToday : ev_log.resp.evaluation = d.evaluation
               /\ ev_log.upstream = 0
               /\ evaluations_collection = ev_log.before

\* a call has returned the evaluation stored for today
C9_Witness ==
    /\ ev_pc = "idle"
    /\ ev_log # <<>>
    /\ StoredForToday # {}
    /\ ev_log.resp.status = 200

(***************************************************************************)
(* Properties of the routes                                                *)
(***************************************************************************)
\* C10 (as claimed): a GET request to /api/journal/me that carries no user_id
\* cookie is answered with 401 'Not authenticated' by get_my_journal and
\* returns no journal documents.
C10_MeWithoutCookieIs401 ==
    (rt_req # <<>> /\ rt_req.method = "GET" /\ rt_req.path = JournalMePath
                   /\ Falsy(rt_req.cookie)) =>
        /\ rt_resp.status = 401
        /\ rt_resp.detail = "Not authenticated"
        /\ rt_resp.endpoint = "get_my_journal"
        /\ rt_resp.entries = {}

(***************************************************************************)
(* Properties of _normalize_steps                                          *)
(***************************************************************************)
\* the dict elements of the argument
ArgDicts == OnlyDicts(AsList(ns_in))

\* C11: the result of _normalize_steps holds only dict elements of the
\* argument, each at most once, and min(8, number of dict elements) of them;
\* their 'order' is 1..n by position; 'completed' keeps the argument's value
\* when present and is False otherwise; and _normalize_steps applied to its
\* own result returns an equal list.
C11_NormalizeSteps ==
    ns_pc # "idle" =>
        /\ Len(ns_out) = Min(NORMALIZE_MAX, Len(ArgDicts))
        /\ \A i \in 1..Len(ns_out) :
               /\ ns_out[i].order = << <<"int", i>> >>
               /\ \E j \in 1..Len(ArgDicts) :
                      /\ ArgDicts[j].name = ns_out[i].name
                      /\ ns_out[i].isdict
                      /\ ns_out[i].completed = IF ArgDicts[j].completed = <<>> THEN <<"False">>
                                               ELSE ArgDicts[j].completed
        /\ \A i, k \in 1..Len(ns_out) : ns_out[i].name = ns_out[k].name => i = k
        /\ ns_pc = "twice" => ns_again = ns_out

\* a list of more than 8 dicts and an element that is not a dict has been
\* normalized twice, one of its kept steps having had no 'completed'
C11_Witness ==
    /\ ns_pc = "twice"
    /\ Len(ArgDicts) > NORMALIZE_MAX
    /\ Len(ns_in.items) > Len(ArgDicts)
    /\ \E i \in 1..Len(ns_out) : ns_out[i].completed = <<"False">>
    /\ \E i \in 1..Len(ns_out) : ns_out[i].completed = <<"True">>

(***************************************************************************)
(* Properties of get_goal_breakdown: the order of the plan                 *)
(***************************************************************************)
\* ten times the order the reply gave the step, its position in the reply
\* standing for a missing or zero order
SuppliedOrder(step) ==
    LET o == step.src.order
    IN  IF o[2] = 0 THEN 10 * step.src.pos
        ELSE IF o[1] = "float" THEN o[2] ELSE 10 * o[2]

\* the same as int() leaves it
TruncatedOrder(step) == IntOrder(step.src.order, step.src.pos)

FromFirst(step) == step.src.reply = "first"

\* the steps of the backfill call come after the steps of the first reply
BackfillLast ==
    \A i, j \in 1..Len(bd_result) :
        (i < j /\ ~FromFirst(bd_result[i])) => ~FromFirst(bd_result[j])

\* C12 (as claimed): the steps from the first reply are returned in
\* non-decreasing order of the order the model gave them (a missing or zero
\* order counts as the position in the reply, ties keep the order of the
\* reply), and every step of the backfill call comes after every step of the
\* first reply.
C12_AsClaimed ==
    BreakdownReturned =>
        /\ \A i, j \in 1..Len(bd_result) :
               (i < j /\ FromFirst(bd_result[i]) /\ FromFirst(bd_result[j])) =>
                   \/ SuppliedOrder(bd_result[i]) < SuppliedOrder(bd_result[j])
                   \/ /\ SuppliedOrder(bd_result[i]) = SuppliedOrder(bd_result[j])
                      /\ bd_result[i].src.pos < bd_result[j].src.pos
        /\ BackfillLast

\* C12 (amended): the steps from the first reply are returned in
\* non-decreasing order of int(order), the order the model gave them cut to a
\* whole number (a missing or zero order counts as the position in the reply,
\* ties keep the order of the reply), and every step of the backfill call
\* comes after every step of the first reply, whatever its order.
C12_OrderOfPlan ==
    BreakdownReturned =>
        /\ \A i, j \in 1..Len(bd_result) :
               (i < j /\ FromFirst(bd_result[i]) /\ FromFirst(bd_result[j])) =>
                   \/ TruncatedOrder(bd_result[i]) < TruncatedOrder(bd_result[j])
                   \/ /\ TruncatedOrder(bd_result[i]) = TruncatedOrder(bd_result[j])
                      /\ bd_result[i].src.pos < bd_result[j].src.pos
        /\ BackfillLast

\* a plan whose first reply was reordered and whose backfill step carries an
\* order lower than that of a step before it
C12_Witness ==
    /\ BreakdownReturned
    /\ \E i, j \in 1..Len(bd_result) :
           /\ i < j
           /\ FromFirst(bd_result[i]) /\ FromFirst(bd_result[j])
           /\ bd_result[i].src.pos > bd_result[j].src.pos
    /\ \E i, j \in 1..Len(bd_result) :
           /\ i < j
           /\ FromFirst(bd_result[i]) /\ ~FromFirst(bd_result[j])
           /\ SuppliedOrder(bd_result[j]) < SuppliedOrder(bd_result[i])

(***************************************************************************)
(* Properties of register_user                                             *)
(***************************************************************************)
\* the request of the slot has returned
Registered(p) == us_pc[p] = "done" /\ us_resp[p] # <<>>

\* C14 (as claimed): in every reachable state users_collection holds at most
\* one document per username, and a register_user request for a username
\* that is already stored returns 400 "Username already exists." and inserts
\* nothing, also when two requests for the same new username interleave
\* between the find_one and the insert_one.
C14_UniqueUsernames ==
    /\ \A d1, d2 \in users_collection : d1.username = d2.username => d1 = d2
    /\ \A p \in Requests :
           (Registered(p) /\ us_log[p].existed) =>
               /\ us_resp[p].status = 400
               /\ us_resp[p].msg = "Username already exists."
               /\ ~us_log[p].inserted

=============================================================================
